---------------------------- MODULE Spec2Model ----------------------------
(***************************************************************************)
(* Model of github.com/usbarmory/imx-enet: the Ethernet <-> gVisor stack   *)
(* bridge (NIC.Init / NIC.Rx / NIC.Tx / notification.WriteNotify), the     *)
(* interface constructors (Init / InitWithOptions / configure /            *)
(* configureProtocol), the address parser (fullAddr) and the socket        *)
(* dispatcher (Interface.Socket, DialTCP4, DialUDP4).                      *)
(*                                                                         *)
(* Representation.                                                         *)
(*   - a Go string is a sequence of one-character strings;                 *)
(*   - a []byte, net.IP, net.HardwareAddr, tcpip.LinkAddress and           *)
(*     tcpip.Address is a sequence of numbers 0..255 (nil and the zero     *)
(*     Address{} are the empty sequence);                                  *)
(*   - a Go error is a string, "" being nil.                               *)
(***************************************************************************)
EXTENDS Integers, Sequences, FiniteSets, TLC

(***************************************************************************)
(* Bounds of the model.                                                    *)
(***************************************************************************)
\* total number of packets the stack writes to the link endpoint
MaxWrites == 3
\* total number of frames the hardware hands to the receive handler
MaxRx == 2
\* longest frame the hardware hands to the receive handler
MaxRxLen == 16

(***************************************************************************)
(* Byte helpers.                                                           *)
(***************************************************************************)
Pow2(n) == 2 ^ n

\* binary.BigEndian.PutUint16(proto, uint16(v))
PutUint16(v) == << (v % 65536) \div 256, (v % 65536) % 256 >>

\* binary.BigEndian.Uint16(b)
Uint16(b) == b[1] * 256 + b[2]

RECURSIVE Concat(_)
\* the concatenation of a sequence of byte slices, in order
Concat(ss) == IF ss = << >> THEN << >> ELSE Head(ss) \o Concat(Tail(ss))

RECURSIVE SumLen(_)
SumLen(ss) == IF ss = << >> THEN 0 ELSE Len(Head(ss)) + SumLen(Tail(ss))

(***************************************************************************)
(* State.                                                                  *)
(*   pc    where the construction of the interface stands: "new",          *)
(*         "configured" (the NIC literal is built, NIC.Init not yet run),  *)
(*         "devup" (NIC.Init has bound the device and returned from        *)
(*         Device.Init, and has not yet called Link.AddNotify),            *)
(*         "up" (NIC.Init returned nil) or "failed"                        *)
(*   nic   the NIC struct: MAC, Link (is the pointer non-nil), Device (is  *)
(*         the pointer non-nil)                                            *)
(*   dev   the enet.ENET device as this package touches it: MAC,           *)
(*         RxHandler (bound to NIC.Rx), up (Device.Init was called), tx    *)
(*         (the buffers passed to Device.Tx, in call order), nrx (frames   *)
(*         handed to the receive handler so far)                           *)
(*   link  the channel.Endpoint: q (the outgoing packet queue), notify     *)
(*         (the number of registered notification handles), pending (the   *)
(*         WriteNotify calls raised and not yet run), inj (the packets     *)
(*         injected inbound, in order), nw (packets written so far)        *)
(*   iface the Interface built by the constructor                          *)
(*   ret   the constructor called (by, args), what it returned (iface:     *)
(*         "nil" or "iface"; err) and what NIC.Init returned (nicinit)     *)
(*   last  the latest operation with what it saw on entry                  *)
(*   handlers  the notification handlers that have read the link endpoint  *)
(*         and not yet called Device.Tx, in the order of their reads, each  *)
(*         with the buffer NIC.Tx returned to it                            *)
(***************************************************************************)
VARIABLES pc, nic, dev, link, iface, ret, last, handlers

vars == << pc, nic, dev, link, iface, ret, last, handlers >>

(***************************************************************************)
(* Frame codec and link bridge.                                            *)
(***************************************************************************)
\* a MAC-sized address
HwAddrLen == 6
\* Ethernet header size tested by NIC.Rx
HdrLen == 14

\* the nil *stack.PacketBuffer that channel.Endpoint.Read yields on an empty queue
NilPkt == [nil |-> TRUE, proto |-> 0, dst |-> << >>, slices |-> << >>]

\* a queued outgoing packet: NetworkProtocolNumber, EgressRoute.RemoteLinkAddress, AsSlices()
Pkt(proto, dst, slices) == [nil |-> FALSE, proto |-> proto, dst |-> dst, slices |-> slices]

\* channel.Endpoint.Read as NIC.Tx uses it: non-blocking, nil on an empty queue
LinkRead(q) ==
    IF q = << >> THEN [pkt |-> NilPkt, q |-> q]
                 ELSE [pkt |-> Head(q), q |-> Tail(q)]

\* NIC.Tx's frame with the protocol number written little-endian
TxFrameLittleEndian(mac, pkt) ==
    pkt.dst \o mac \o << (pkt.proto % 65536) % 256, (pkt.proto % 65536) \div 256 >>
        \o Concat(pkt.slices)

\* the frame NIC.Tx builds for a non-nil packet
TxFrame(mac, pkt) ==
    pkt.dst \o mac \o PutUint16(pkt.proto) \o Concat(pkt.slices)

\* NIC.Tx: one read of the link endpoint; nil buffer when the read yields nil
NICTx(mac, q) ==
    LET r == LinkRead(q) IN
    IF r.pkt.nil
        THEN [buf |-> << >>, q |-> r.q, pkt |-> r.pkt]
        ELSE [buf |-> TxFrame(mac, r.pkt), q |-> r.q, pkt |-> r.pkt]

\* NIC.Rx with the length test off by one (len(buf) <= 14 dropped)
NICRxOffByOne(buf) ==
    IF Len(buf) <= HdrLen
        THEN << >>
        ELSE << [proto   |-> Uint16(SubSeq(buf, 13, 14)),
                 hdr     |-> SubSeq(buf, 1, 14),
                 payload |-> SubSeq(buf, 15, Len(buf))] >>

\* NIC.Rx: the packets injected inbound for one received buffer (none or one)
NICRx(buf) ==
    IF Len(buf) < HdrLen
        THEN << >>
        ELSE << [proto   |-> Uint16(SubSeq(buf, 13, 14)),
                 hdr     |-> SubSeq(buf, 1, 14),
                 payload |-> SubSeq(buf, 15, Len(buf))] >>

(***************************************************************************)
(* Inputs of the bridge.                                                   *)
(***************************************************************************)
MACa == << 26, 85, 137, 162, 105, 65 >>
Broadcast == << 255, 255, 255, 255, 255, 255 >>
PeerMAC == << 2, 0, 0, 0, 0, 1 >>

\* ipv4.ProtocolNumber, arp.ProtocolNumber, ipv6.ProtocolNumber (ethertypes)
IPv4ProtocolNumber == 2048
ARPProtocolNumber == 2054
IPv6ProtocolNumber == 34525

\* packets the stack may queue: resolved unicast in two slices, broadcast ARP
\* with no payload slice, and a packet whose egress route carries no resolved
\* link address (RemoteLinkAddress is the empty string)
StackPackets ==
    { Pkt(IPv4ProtocolNumber, PeerMAC, << <<69, 0>>, <<1, 2, 3>> >>),
      Pkt(ARPProtocolNumber, Broadcast, << >>),
      Pkt(IPv4ProtocolNumber, << >>, << <<69>> >>) }

\* a received buffer of n bytes: destination, source, ethertype e, payload bytes
RxBuf(n, e) ==
    [i \in 1..n |->
        IF i <= 6 THEN MACa[i]
        ELSE IF i <= 12 THEN PeerMAC[i - 6]
        ELSE IF i = 13 THEN e \div 256
        ELSE IF i = 14 THEN e % 256
        ELSE 160 + i]

\* the buffers handed to the receive handler: empty, one byte short of a header,
\* a bare header, and a header with payload
RxBufs == { RxBuf(n, IPv4ProtocolNumber) : n \in {0, HdrLen - 1, HdrLen, MaxRxLen} }
              \cup { RxBuf(HdrLen + 1, ARPProtocolNumber) }

(***************************************************************************)
(* Strings and the standard parsers the package calls.                     *)
(***************************************************************************)
Digits == << "0", "1", "2", "3", "4", "5", "6", "7", "8", "9" >>

IsDigit(c) == \E i \in 1..10 : Digits[i] = c

DigitVal(c) == (CHOOSE i \in 1..10 : Digits[i] = c) - 1

\* the hex digits strconv.ParseUint (base 16) and the IPv6 parser take: both cases
HexDigits == << "0", "1", "2", "3", "4", "5", "6", "7", "8", "9", "a", "b", "c", "d", "e", "f",
                "A", "B", "C", "D", "E", "F" >>

IsHex(c) == \E i \in 1..22 : HexDigits[i] = c

HexVal(c) == LET i == CHOOSE k \in 1..22 : HexDigits[k] = c IN IF i <= 16 THEN i - 1 ELSE i - 7

\* does the string hold the character
Has(s, c) == \E i \in 1..Len(s) : s[i] = c

\* index of the first (last) occurrence of c in s, 0 when there is none
IndexOf(s, c) == IF Has(s, c) THEN CHOOSE i \in 1..Len(s) : s[i] = c /\ \A j \in 1..(i - 1) : s[j] # c ELSE 0

LastIndexOf(s, c) == IF Has(s, c) THEN CHOOSE i \in 1..Len(s) : s[i] = c /\ \A j \in (i + 1)..Len(s) : s[j] # c ELSE 0

RECURSIVE DecVal(_)
\* value of a string of decimal digits
DecVal(s) == IF s = << >> THEN 0 ELSE DecVal(SubSeq(s, 1, Len(s) - 1)) * 10 + DigitVal(s[Len(s)])

RECURSIVE HexNum(_)
HexNum(s) == IF s = << >> THEN 0 ELSE HexNum(SubSeq(s, 1, Len(s) - 1)) * 16 + HexVal(s[Len(s)])

RECURSIVE Fields(_, _)
\* the fields of s separated by c (strings.Split)
Fields(s, c) ==
    IF ~Has(s, c) THEN << s >>
    ELSE LET i == IndexOf(s, c) IN << SubSeq(s, 1, i - 1) >> \o Fields(SubSeq(s, i + 1, Len(s)), c)

\* strconv.Atoi on a 32-bit int: optional sign, decimal digits, range of int32
Atoi(s) ==
    LET signed == Len(s) > 0 /\ s[1] \in {"+", "-"}
        body == IF signed THEN Tail(s) ELSE s
        v == IF signed /\ s[1] = "-" THEN 0 - DecVal(body) ELSE DecVal(body)
    IN  IF body = << >> \/ \E i \in 1..Len(body) : ~IsDigit(body[i])
            THEN [ok |-> FALSE, v |-> 0]
        ELSE IF v > 2147483647 \/ v < (0 - 2147483647) - 1
            THEN [ok |-> FALSE, v |-> 0]
        ELSE [ok |-> TRUE, v |-> v]

\* net.SplitHostPort: host and port around the last colon, brackets around an
\* IPv6 host; ok is FALSE where the function returns an error
SplitHostPort(a) ==
    LET i == LastIndexOf(a, ":")
        bad == [ok |-> FALSE, host |-> << >>, port |-> << >>]
    IN  IF i = 0 THEN bad
        ELSE IF a[1] = "["
            THEN LET end == IndexOf(a, "]") IN
                 IF end = 0 \/ end + 1 # i THEN bad
                 ELSE IF Has(SubSeq(a, 2, Len(a)), "[") \/ Has(SubSeq(a, end + 1, Len(a)), "]") THEN bad
                 ELSE [ok |-> TRUE, host |-> SubSeq(a, 2, end - 1), port |-> SubSeq(a, i + 1, Len(a))]
        ELSE IF Has(SubSeq(a, 1, i - 1), ":") THEN bad
        ELSE IF Has(a, "[") \/ Has(a, "]") THEN bad
        ELSE [ok |-> TRUE, host |-> SubSeq(a, 1, i - 1), port |-> SubSeq(a, i + 1, Len(a))]

\* one field of a dotted-decimal IPv4 literal: 1 to 3 digits, no leading zero, at most 255
IsV4Field(f) ==
    /\ Len(f) \in 1..3
    /\ \A i \in 1..Len(f) : IsDigit(f[i])
    /\ (Len(f) > 1 => f[1] # "0")
    /\ DecVal(f) <= 255

\* prefix of the 16-byte form net.ParseIP gives an IPv4 address
V4InV6Prefix == << 0, 0, 0, 0, 0, 0, 0, 0, 0, 0, 255, 255 >>

\* the IPv4 parser of net/netip: four dotted fields, the 4 bytes or nil
ParseIPv4(s) ==
    LET fs == Fields(s, ".") IN
    IF Len(fs) = 4 /\ \A i \in 1..4 : IsV4Field(fs[i])
        THEN [i \in 1..4 |-> DecVal(fs[i])]
        ELSE << >>

RECURSIVE ParseIPv6Groups(_, _, _)
\* the loop of the IPv6 parser of net/netip over the string that is left: ip
\* holds the bytes parsed so far, ellipsis the byte offset of "::" (-1: none
\* seen).  Each turn takes a group of 1 to 4 hex digits, or the trailing
\* dotted IPv4 part, then a colon or the "::"
ParseIPv6Groups(s, ip, ellipsis) ==
    LET bad == [ok |-> FALSE, ip |-> << >>, ellipsis |-> ellipsis, rest |-> << >>]
        nonhex == { k \in 1..Len(s) : ~IsHex(s[k]) }
        off == IF nonhex = {} THEN Len(s)
               ELSE (CHOOSE k \in nonhex : \A m \in nonhex : k <= m) - 1
    IN  IF off = 0 \/ off > 4 THEN bad
        ELSE IF off < Len(s) /\ s[off + 1] = "."
            THEN IF (ellipsis < 0 /\ Len(ip) # 12) \/ Len(ip) + 4 > 16 THEN bad
                 ELSE IF ParseIPv4(s) = << >> THEN bad
                 ELSE [ok |-> TRUE, ip |-> ip \o ParseIPv4(s), ellipsis |-> ellipsis, rest |-> << >>]
        ELSE LET acc == HexNum(SubSeq(s, 1, off))
                 ip2 == ip \o << acc \div 256, acc % 256 >>
                 s2 == SubSeq(s, off + 1, Len(s))
             IN  IF s2 = << >>
                     THEN [ok |-> TRUE, ip |-> ip2, ellipsis |-> ellipsis, rest |-> << >>]
                 ELSE IF s2[1] # ":" \/ Len(s2) = 1 THEN bad
                 ELSE IF s2[2] = ":"
                     THEN IF ellipsis >= 0 THEN bad
                          ELSE IF Len(s2) = 2 \/ Len(ip2) >= 16
                              THEN [ok |-> TRUE, ip |-> ip2, ellipsis |-> Len(ip2),
                                    rest |-> SubSeq(s2, 3, Len(s2))]
                          ELSE ParseIPv6Groups(SubSeq(s2, 3, Len(s2)), ip2, Len(ip2))
                 ELSE IF Len(ip2) >= 16
                     THEN [ok |-> TRUE, ip |-> ip2, ellipsis |-> ellipsis, rest |-> Tail(s2)]
                 ELSE ParseIPv6Groups(Tail(s2), ip2, ellipsis)

\* the IPv6 parser of net/netip for a literal without zone: the 16 bytes or nil
ParseIPv6(s) ==
    LET lead == Len(s) >= 2 /\ s[1] = ":" /\ s[2] = ":"
        r == ParseIPv6Groups(IF lead THEN SubSeq(s, 3, Len(s)) ELSE s, << >>,
                             IF lead THEN 0 ELSE 0 - 1)
        n == 16 - Len(r.ip)
    IN  IF lead /\ Len(s) = 2 THEN [i \in 1..16 |-> 0]
        ELSE IF ~r.ok \/ r.rest # << >> THEN << >>
        ELSE IF Len(r.ip) < 16
            THEN IF r.ellipsis < 0 THEN << >>
                 ELSE SubSeq(r.ip, 1, r.ellipsis) \o [i \in 1..n |-> 0]
                          \o SubSeq(r.ip, r.ellipsis + 1, Len(r.ip))
        ELSE IF r.ellipsis >= 0 THEN << >>
        ELSE r.ip

\* net.ParseIP: the first of '.', ':' and '%' in the string selects the
\* parser; the result is the 16-byte form (IPv4 addresses IPv4-mapped), nil on
\* any error and for a literal with a zone
ParseIP(s) ==
    LET marks == { k \in 1..Len(s) : s[k] \in {".", ":", "%"} }
        first == CHOOSE k \in marks : \A m \in marks : k <= m
    IN  IF marks = {} \/ Has(s, "%") THEN << >>
        ELSE IF s[first] = "."
            THEN IF ParseIPv4(s) = << >> THEN << >> ELSE V4InV6Prefix \o ParseIPv4(s)
        ELSE ParseIPv6(s)

\* net.IP.To4: the 4-byte form of an IPv4 address, nil otherwise
IPTo4(ip) ==
    IF Len(ip) = 4 THEN ip
    ELSE IF Len(ip) = 16 /\ SubSeq(ip, 1, 12) = V4InV6Prefix THEN SubSeq(ip, 13, 16)
    ELSE << >>

\* tcpip.AddrFromSlice: an Address of 4 or 16 bytes, the zero Address otherwise
AddrFromSlice(b) == IF Len(b) \in {4, 16} THEN b ELSE << >>

\* tcpip.Address.To4
AddrTo4(a) == IPTo4(a)

\* tcpip.Address.Unspecified: every byte is zero (so is the zero Address)
Unspecified(a) == \A i \in 1..Len(a) : a[i] = 0

\* bits.LeadingZeros8(^b): the leading one bits of a byte
LeadingOnes(b) ==
    IF b = 255 THEN 8 ELSE IF b >= 254 THEN 7 ELSE IF b >= 252 THEN 6
    ELSE IF b >= 248 THEN 5 ELSE IF b >= 240 THEN 4 ELSE IF b >= 224 THEN 3
    ELSE IF b >= 192 THEN 2 ELSE IF b >= 128 THEN 1 ELSE 0

RECURSIVE MaskPrefix(_)
\* tcpip.MaskFromBytes(bs).Prefix(): the sum of the leading one bits of each byte
MaskPrefix(bs) == IF bs = << >> THEN 0 ELSE LeadingOnes(Head(bs)) + MaskPrefix(Tail(bs))

\* tcpip.AddressWithPrefix.Subnet: the address and the mask of the subnet
Subnet(addr, prefix) ==
    LET n == Len(addr)
        bitsAt(i) == IF prefix <= 0 THEN 0
                     ELSE IF prefix >= 8 * i THEN 8
                     ELSE IF prefix <= 8 * (i - 1) THEN 0
                     ELSE prefix - 8 * (i - 1)
        maskAt(i) == 256 - Pow2(8 - bitsAt(i))
    IN  [address |-> [i \in 1..n |-> (addr[i] \div Pow2(8 - bitsAt(i))) * Pow2(8 - bitsAt(i))],
         mask    |-> [i \in 1..n |-> maskAt(i)]]

\* tcpip.ParseMACAddress: six fields separated by ':' or '-' (empty fields are
\* dropped), each a hex number of at most 255; ok is FALSE where it returns an error
RECURSIVE MACFields(_)
MACFields(s) ==
    IF s = << >> THEN << >>
    ELSE IF s[1] \in {":", "-"} THEN MACFields(Tail(s))
    ELSE LET stop == { i \in 1..Len(s) : s[i] \in {":", "-"} }
             n == IF stop = {} THEN Len(s) ELSE (CHOOSE i \in stop : \A j \in stop : i <= j) - 1
         IN  << SubSeq(s, 1, n) >> \o MACFields(SubSeq(s, n + 1, Len(s)))

ParseMACAddress(s) ==
    LET parts == MACFields(s) IN
    IF Len(parts) # 6 THEN [ok |-> FALSE, addr |-> << >>]
    ELSE IF \E i \in 1..6 : (\E j \in 1..Len(parts[i]) : ~IsHex(parts[i][j])) \/ HexNum(parts[i]) > 255
        THEN [ok |-> FALSE, addr |-> << >>]
    ELSE [ok |-> TRUE, addr |-> [i \in 1..6 |-> HexNum(parts[i])]]

(***************************************************************************)
(* Interface construction: Init, InitWithOptions, configure,               *)
(* configureProtocol.                                                      *)
(***************************************************************************)
\* capacity of the link endpoint queue (channel.New(256, ...))
LinkQueueSize == 256

\* syscall address families, keys of Interface.protos
AFINET == "AF_INET"
AFINET6 == "AF_INET6"

\* no IPConfig (a nil *IPConfig)
NoIPConfig == [nil |-> TRUE, Address |-> << >>, PrefixLen |-> 0, Gateway |-> << >>]

IPConfig(addr, prefix, gw) == [nil |-> FALSE, Address |-> addr, PrefixLen |-> prefix, Gateway |-> gw]

\* header.IPv4EmptySubnet and header.IPv6EmptySubnet
IPv4EmptySubnet == [address |-> << 0, 0, 0, 0 >>, mask |-> << 0, 0, 0, 0 >>]
IPv6EmptySubnet == [address |-> [i \in 1..16 |-> 0], mask |-> [i \in 1..16 |-> 0]]

\* DefaultStackOptions.NetworkProtocols: ARP and IPv4
DefaultNetworkProtocols == { ARPProtocolNumber, IPv4ProtocolNumber }

\* a tcpip.Route with no gateway, and one through a gateway
Route(dst, gw, id) == [Destination |-> dst, Gateway |-> gw, NIC |-> id]

\* stack.AddProtocolAddress as the stack answers it: an error for a protocol
\* the stack was not built with; a zero-length address is refused or taken as
\* the stack build decides (acceptEmpty)
AddProtocolAddressOK(protocols, acceptEmpty, p, cfg) ==
    /\ p \in protocols
    /\ (cfg.Address = << >> => acceptEmpty)

\* configureProtocol without the test of the gateway: the default route is
\* always appended
configureProtocolNoGatewayTest(protocols, acceptEmpty, id, p, cfg) ==
    IF ~AddProtocolAddressOK(protocols, acceptEmpty, p, cfg)
        THEN [err |-> "add protocol address", rt |-> << >>, addrs |-> << >>]
        ELSE [err   |-> "",
              addrs |-> << [Protocol |-> p, Address |-> cfg.Address, PrefixLen |-> cfg.PrefixLen] >>,
              rt    |-> << Route(Subnet(cfg.Address, cfg.PrefixLen), << >>, id),
                           Route(IF p = IPv4ProtocolNumber THEN IPv4EmptySubnet ELSE IPv6EmptySubnet,
                                 cfg.Gateway, id) >>]

\* configureProtocol: registers the address, returns the routes of the family
configureProtocol(protocols, acceptEmpty, id, p, cfg) ==
    IF ~AddProtocolAddressOK(protocols, acceptEmpty, p, cfg)
        THEN [err |-> "add protocol address", rt |-> << >>, addrs |-> << >>]
        ELSE [err   |-> "",
              addrs |-> << [Protocol |-> p, Address |-> cfg.Address, PrefixLen |-> cfg.PrefixLen] >>,
              rt    |-> << Route(Subnet(cfg.Address, cfg.PrefixLen), << >>, id) >>
                        \o (IF ~Unspecified(cfg.Gateway) /\ p \in {IPv4ProtocolNumber, IPv6ProtocolNumber}
                               THEN << Route(IF p = IPv4ProtocolNumber THEN IPv4EmptySubnet ELSE IPv6EmptySubnet,
                                             cfg.Gateway, id) >>
                               ELSE << >>)]

\* the Interface before configure: no stack NIC, no address, no route
NoIface == [NICID |-> 0, protos |-> {}, addrs |-> << >>, rt |-> << >>, created |-> FALSE]

\* configure: creates the stack and the link endpoint, attaches the endpoint as
\* NIC id, configures IPv4 then IPv6, installs the route table as a whole.
\* stk is what the stack collaborator answers: createOK (CreateNIC succeeds),
\* acceptEmpty (see AddProtocolAddressOK)
configure(id, opts, stk) ==
    LET protocols == IF opts.StackOptions = "nil" THEN DefaultNetworkProtocols
                     ELSE DefaultNetworkProtocols \cup { IPv6ProtocolNumber }
        base == [NICID |-> id, protos |-> {}, addrs |-> << >>, rt |-> << >>, created |-> stk.createOK]
        r4 == configureProtocol(protocols, stk.acceptEmpty, id, IPv4ProtocolNumber, opts.IPv4)
        r6 == configureProtocol(protocols, stk.acceptEmpty, id, IPv6ProtocolNumber, opts.IPv6)
        with4 == IF opts.IPv4.nil THEN base
                 ELSE [base EXCEPT !.addrs = r4.addrs, !.protos = { AFINET }]
        rt4 == IF opts.IPv4.nil THEN << >> ELSE r4.rt
        with6 == IF opts.IPv6.nil THEN with4
                 ELSE [with4 EXCEPT !.addrs = with4.addrs \o r6.addrs, !.protos = with4.protos \cup { AFINET6 }]
        rt6 == IF opts.IPv6.nil THEN rt4 ELSE rt4 \o r6.rt
    IN  IF ~stk.createOK THEN [err |-> "create NIC", iface |-> base]
        ELSE IF ~opts.IPv4.nil /\ r4.err # "" THEN [err |-> "failed to configure IPv4", iface |-> base]
        ELSE IF ~opts.IPv6.nil /\ r6.err # "" THEN [err |-> "failed to configure IPv6", iface |-> with4]
        ELSE [err |-> "", iface |-> [with6 EXCEPT !.rt = rt6]]

\* NIC.Init without the test of the MAC length
NICInitErrNoMACTest(n) ==
    IF ~n.Link THEN "missing link endpoint" ELSE ""

\* NIC.Init: the error it returns ("" is nil)
NICInitErr(n) ==
    IF ~n.Link THEN "missing link endpoint"
    ELSE IF Len(n.MAC) # HwAddrLen THEN "invalid MAC address"
    ELSE ""

\* NIC.Init binds the device and registers the notification only past the nil-device return
NICInitWires(n) == NICInitErr(n) = "" /\ n.Device

\* the Options Init builds from its string arguments
InitOptions(address, ip, netmask, gateway) ==
    [MAC          |-> address,
     StackOptions |-> "nil",
     IPv4         |-> IPConfig(AddrFromSlice(IPTo4(ParseIP(ip))),
                               MaskPrefix(IPTo4(ParseIP(netmask))),
                               AddrTo4(AddrFromSlice(ParseIP(gateway)))),
     IPv6         |-> NoIPConfig]

(***************************************************************************)
(* Inputs of the constructors.                                             *)
(***************************************************************************)
MACStrings == { << "1", "a", ":", "5", "5", ":", "8", "9", ":", "a", "2", ":", "6", "9", ":", "4", "1" >>,
                << "1", "A", ":", "5", "5", ":", "8", "9", ":", "A", "2", ":", "6", "9", ":", "4", "1" >>,
                << "1", "a", ":", "5", "5", ":", "8", "9" >> }

IPStrings == { << "1", "0", ".", "0", ".", "0", ".", "2" >>,
               << "1", "0", ".", "0", ".", "0" >> }

NetmaskStrings == { << "2", "5", "5", ".", "2", "5", "5", ".", "2", "5", "5", ".", "0" >>,
                    << "/", "2", "4" >> }

GatewayStrings == { << "1", "0", ".", "0", ".", "0", ".", "1" >>,
                    << "0", ".", "0", ".", "0", ".", "0" >>,
                    << ":", ":", "f", "f", "f", "f", ":", "1", "0", ".", "0", ".", "0", ".", "1" >>,
                    << "g", "w" >> }

\* what the stack collaborator answers during configure
StackAnswers == [createOK : BOOLEAN, acceptEmpty : BOOLEAN]

\* the Options values InitWithOptions is called with: a 6-byte, an empty and
\* an 8-byte MAC; default or IPv6-enabled stack options; IPv4 with a gateway,
\* with the unspecified gateway, or absent; IPv6 (fe80::2/64, with no gateway
\* or through fe80::1) or absent
OptionsMACs == { MACa, << >>, MACa \o << 0, 1 >> }

IPv4Configs == { NoIPConfig,
                 IPConfig(<< 10, 0, 0, 2 >>, 24, << 10, 0, 0, 1 >>),
                 IPConfig(<< 10, 0, 0, 2 >>, 24, << 0, 0, 0, 0 >>) }

IPv6Configs == { NoIPConfig,
                 IPConfig(<< 254, 128 >> \o [i \in 1..13 |-> 0] \o << 2 >>, 64, << >>),
                 IPConfig(<< 254, 128 >> \o [i \in 1..13 |-> 0] \o << 2 >>, 64,
                          << 254, 128 >> \o [i \in 1..13 |-> 0] \o << 1 >>) }

OptionsValues ==
    [MAC : OptionsMACs, StackOptions : {"nil", "ipv6"}, IPv4 : IPv4Configs, IPv6 : IPv6Configs]

(***************************************************************************)
(* Initial state: nothing constructed.                                     *)
(***************************************************************************)
NoNIC == [MAC |-> << >>, Link |-> FALSE, Device |-> FALSE]

DevInit == [MAC |-> << >>, RxHandler |-> FALSE, up |-> FALSE, tx |-> << >>, nrx |-> 0]

LinkInit == [attached |-> FALSE, q |-> << >>, notify |-> 0, pending |-> 0, inj |-> << >>, nw |-> 0]

Init ==
    /\ pc = "new"
    /\ nic = NoNIC
    /\ dev = DevInit
    /\ link = LinkInit
    /\ iface = NoIface
    /\ ret = [by |-> "none", args |-> << >>, iface |-> "pending", err |-> "", nicinit |-> "not run"]
    /\ last = [op |-> "none"]
    /\ handlers = << >>

(***************************************************************************)
(* Actions.                                                                *)
(***************************************************************************)
\* InitWithOptions up to the construction of the NIC literal (net.go:283-301):
\* configure, then the NIC; a configure error returns (nil, err)
Construct(by, args, device, id, opts, stk) ==
    LET c == configure(id, opts, stk) IN
    /\ iface' = c.iface
    /\ UNCHANGED << dev, handlers >>
    /\ last' = [op |-> by]
    /\ IF c.err # ""
          THEN /\ pc' = "failed"
               /\ ret' = [by |-> by, args |-> args, iface |-> "nil", err |-> c.err, nicinit |-> "not run"]
               /\ UNCHANGED << nic, link >>
          ELSE /\ pc' = "configured"
               /\ ret' = [by |-> by, args |-> args, iface |-> "pending", err |-> "", nicinit |-> "not run"]
               /\ nic' = [MAC |-> opts.MAC, Link |-> TRUE, Device |-> device]
               /\ link' = [LinkInit EXCEPT !.attached = TRUE]

\* Init(nic, ip, netmask, mac, gateway, id)
EnetInit(device, ip, netmask, mac, gateway, id, stk) ==
    /\ pc = "new"
    /\ LET m == ParseMACAddress(mac)
           args == [ip |-> ip, netmask |-> netmask, mac |-> mac, gateway |-> gateway]
       IN
       IF ~m.ok
          THEN /\ pc' = "failed"
               /\ ret' = [by |-> "Init", args |-> args, iface |-> "nil", err |-> "parse MAC", nicinit |-> "not run"]
               /\ last' = [op |-> "Init"]
               /\ UNCHANGED << nic, dev, link, iface, handlers >>
          ELSE Construct("Init", args, device, id, InitOptions(m.addr, ip, netmask, gateway), stk)

\* InitWithOptions(nic, id, opts)
InitWithOptions(device, id, opts, stk) ==
    /\ pc = "new"
    /\ Construct("InitWithOptions", opts, device, id, opts, stk)

\* a NIC literal built by the application itself (the struct and its fields
\* are exported), to be initialized with NIC.Init
NewNIC(mac, hasLink, device) ==
    /\ pc = "new"
    /\ pc' = "configured"
    /\ nic' = [MAC |-> mac, Link |-> hasLink, Device |-> device]
    /\ link' = [LinkInit EXCEPT !.attached = hasLink]
    /\ ret' = [by |-> "NIC", args |-> << >>, iface |-> "none", err |-> "", nicinit |-> "not run"]
    /\ last' = [op |-> "NewNIC"]
    /\ UNCHANGED << dev, iface, handlers >>

\* NIC.Init up to the return of Device.Init: the two checks, the return for a
\* nil device, then MAC, RxHandler and Device.Init.  Where it returns, so does
\* InitWithOptions (net.go:303)
NICInit ==
    /\ pc = "configured"
    /\ LET err == NICInitErr(nic) IN
       IF NICInitWires(nic)
          THEN /\ pc' = "devup"
               /\ dev' = [dev EXCEPT !.MAC = nic.MAC, !.RxHandler = TRUE, !.up = TRUE]
               /\ UNCHANGED << ret, link >>
          ELSE /\ pc' = IF err = "" THEN "up" ELSE "failed"
               /\ ret' = [ret EXCEPT !.iface = IF ret.by = "NIC" THEN "none" ELSE "iface",
                                     !.err = err,
                                     !.nicinit = IF err = "" THEN "nil" ELSE err]
               /\ UNCHANGED << dev, link >>
    /\ last' = [op |-> "NICInit"]
    /\ UNCHANGED << nic, iface, handlers >>

\* the rest of NIC.Init: eth.Link.AddNotify, then the return of nil
NICInitAddNotify ==
    /\ pc = "devup"
    /\ pc' = "up"
    /\ link' = [link EXCEPT !.notify = @ + 1]
    /\ ret' = [ret EXCEPT !.iface = IF ret.by = "NIC" THEN "none" ELSE "iface",
                          !.err = "",
                          !.nicinit = "nil"]
    /\ last' = [op |-> "NICInitAddNotify"]
    /\ UNCHANGED << nic, dev, iface, handlers >>

\* the stack writes one packet to the link endpoint (channel.Endpoint
\* WritePackets): the packet is queued and every registered notification
\* handle is called once
StackWrite(pkt) ==
    /\ pc \in {"configured", "devup", "up"}
    /\ link.attached
    /\ link.nw < MaxWrites
    /\ Len(link.q) < LinkQueueSize
    /\ link' = [link EXCEPT !.q = Append(@, pkt), !.pending = @ + link.notify, !.nw = @ + 1]
    /\ last' = [op |-> "StackWrite"]
    /\ UNCHANGED << pc, nic, dev, iface, ret, handlers >>

\* notification handlers that may be between their read and their transmit
MaxHandlers == 2

\* the sequence s without its i-th element
RemoveAt(s, i) == SubSeq(s, 1, i - 1) \o SubSeq(s, i + 1, Len(s))

\* notification.WriteNotify is n.eth.Device.Tx(n.eth.Tx()): the argument is
\* evaluated first (one read of the link endpoint, under the endpoint's own
\* lock), then Device.Tx is called; the package holds no lock across the two,
\* and the endpoint calls WriteNotify on the goroutine of each writer.
\* First half: n.eth.Tx() is evaluated
WriteNotifyRead ==
    /\ link.pending > 0
    /\ Len(handlers) < MaxHandlers
    /\ LET r == NICTx(nic.MAC, link.q) IN
       /\ link' = [link EXCEPT !.q = r.q, !.pending = @ - 1]
       /\ handlers' = Append(handlers, [buf |-> r.buf, pkt |-> r.pkt])
       /\ last' = [op |-> "WriteNotifyRead", q0 |-> link.q, tx0 |-> Len(dev.tx), pkt |-> r.pkt]
    /\ UNCHANGED << pc, nic, dev, iface, ret >>

\* second half of WriteNotify, for the i-th handler in read order: Device.Tx
\* is called with the buffer that handler read.  last keeps what the step saw:
\* the queue and the transmit count before it, the buffers of the handlers
\* that read earlier and have not transmitted yet, and, when the step follows
\* this handler's own read at once (seq), the queue that read found (qentry)
WriteNotifyTx(i) ==
    /\ i \in 1..Len(handlers)
    /\ dev' = [dev EXCEPT !.tx = Append(@, handlers[i].buf)]
    /\ handlers' = RemoveAt(handlers, i)
    /\ LET seq == last.op = "WriteNotifyRead" /\ i = Len(handlers) IN
       last' = [op |-> "WriteNotifyTx", buf |-> handlers[i].buf, pkt |-> handlers[i].pkt,
                q0 |-> link.q, tx0 |-> Len(dev.tx),
                earlier |-> [j \in 1..(i - 1) |-> handlers[j].buf],
                seq |-> seq, qentry |-> IF seq THEN last.q0 ELSE << >>]
    /\ UNCHANGED << pc, nic, link, iface, ret >>

\* NIC.Tx called by the application itself: the frame goes to the caller
TxCall ==
    /\ pc = "up"
    /\ nic.Link
    /\ LET r == NICTx(nic.MAC, link.q) IN
       /\ link' = [link EXCEPT !.q = r.q]
       /\ last' = [op |-> "Tx", q0 |-> link.q, buf |-> r.buf, pkt |-> r.pkt]
    /\ UNCHANGED << pc, nic, dev, iface, ret, handlers >>

\* NIC.Rx called by the device with one received buffer
Rx(buf) ==
    /\ dev.RxHandler
    /\ dev.nrx < MaxRx
    /\ dev' = [dev EXCEPT !.nrx = @ + 1]
    /\ link' = [link EXCEPT !.inj = @ \o NICRx(buf)]
    /\ last' = [op |-> "Rx", buf |-> buf, inj0 |-> Len(link.inj), q0 |-> link.q, tx0 |-> Len(dev.tx)]
    /\ UNCHANGED << pc, nic, iface, ret, handlers >>

\* the construction of an interface or of a NIC, over all the inputs above
NextInit ==
    \/ \E device \in BOOLEAN, ip \in IPStrings, netmask \in NetmaskStrings, mac \in MACStrings,
          gateway \in GatewayStrings, stk \in StackAnswers :
            EnetInit(device, ip, netmask, mac, gateway, 1, stk)
    \/ \E device \in BOOLEAN, opts \in OptionsValues, stk \in StackAnswers :
            InitWithOptions(device, 1, opts, stk)
    \/ \E mac \in OptionsMACs, hasLink \in BOOLEAN, device \in BOOLEAN : NewNIC(mac, hasLink, device)
    \/ NICInit
    \/ NICInitAddNotify

SpecInit == Init /\ [][NextInit]_vars

\* the options and the stack answers of the interface whose bridge is run
BridgeOptions ==
    [MAC |-> MACa, StackOptions |-> "nil",
     IPv4 |-> IPConfig(<< 10, 0, 0, 2 >>, 24, << 10, 0, 0, 1 >>), IPv6 |-> NoIPConfig]

GoodStack == [createOK |-> TRUE, acceptEmpty |-> FALSE]

\* the life of one interface: construction with or without a device, then the
\* stack, the device and the application act in any order
Next ==
    \/ \E device \in BOOLEAN : InitWithOptions(device, 1, BridgeOptions, GoodStack)
    \/ NICInit
    \/ NICInitAddNotify
    \/ \E pkt \in StackPackets : StackWrite(pkt)
    \/ WriteNotifyRead
    \/ \E i \in 1..MaxHandlers : WriteNotifyTx(i)
    \/ TxCall
    \/ \E buf \in RxBufs : Rx(buf)

Spec == Init /\ [][Next]_vars

(***************************************************************************)
(* Address parsing and the socket dispatcher: fullAddr, DialContextTCP4,   *)
(* DialUDP4, Interface.Socket.                                             *)
(***************************************************************************)
\* the zero tcpip.FullAddress
ZeroFullAddress == [Addr |-> << >>, Port |-> 0]

\* fullAddr: err is "" for nil
fullAddr(a) ==
    LET sp == SplitHostPort(a)
        at == Atoi(sp.port)
        host == IF sp.ok THEN sp.host ELSE a
        p == IF sp.ok THEN at.v ELSE 0
    IN  IF sp.ok /\ ~at.ok
            THEN [err |-> "parse port", addr |-> ZeroFullAddress]
            ELSE [err  |-> "",
                  addr |-> [Addr |-> AddrFromSlice(IPTo4(ParseIP(host))), Port |-> p % 65536]]

\* a net.Addr argument: the nil interface, an interface holding a nil pointer
\* (String() is "<nil>"), or an address with its String()
NilAddr == [kind |-> "nil", str |-> << >>]
TypedNilAddr == [kind |-> "typednil", str |-> << "<", "n", "i", "l", ">" >>]
Addr(str) == [kind |-> "addr", str |-> str]

\* laddr != nil && laddr.String() != "<nil>"
AddrGiven(a) == a.kind # "nil" /\ a.str # << "<", "n", "i", "l", ">" >>

\* the result of a dial or listen call: conn and listener (non-nil or not),
\* the error, and the calls made on the stack
Result(conn, listener, err, calls) == [c |-> conn, l |-> listener, err |-> err, calls |-> calls]

StackCall(fn, laddr, raddr) == [fn |-> fn, laddr |-> laddr, raddr |-> raddr]

\* DialContextTCP4 (and DialTCP4, which calls it); ok: the stack's dial succeeds
DialContextTCP4(address, ok) ==
    LET f == fullAddr(address)
        call == StackCall("DialContextTCP", ZeroFullAddress, f.addr)
    IN  IF f.err # "" THEN Result(FALSE, FALSE, f.err, << >>)
        ELSE IF ~ok THEN Result(FALSE, FALSE, "stack", << call >>)
        ELSE Result(TRUE, FALSE, "", << call >>)

\* DialUDP4
DialUDP4(lAddr, rAddr, ok) ==
    LET lf == fullAddr(lAddr)
        rf == fullAddr(rAddr)
        lFullAddr == IF lAddr # << >> THEN lf.addr ELSE ZeroFullAddress
        rFullAddr == IF rAddr # << >> THEN rf.addr ELSE ZeroFullAddress
        call == StackCall("DialUDP", lFullAddr, rFullAddr)
    IN  IF lAddr # << >> /\ lf.err # "" THEN Result(FALSE, FALSE, "failed to parse lAddr", << >>)
        ELSE IF rAddr # << >> /\ rf.err # "" THEN Result(FALSE, FALSE, "failed to parse rAddr", << >>)
        ELSE IF ~ok THEN Result(FALSE, FALSE, "stack", << call >>)
        ELSE Result(TRUE, FALSE, "", << call >>)

\* Interface.Socket with the switch on the network name ahead of the switch on
\* the family
SocketNetworkFirst(network, family, sotype, laddr, raddr, ok) ==
    LET lf == fullAddr(laddr.str)
        rf == fullAddr(raddr.str)
        lFullAddr == IF AddrGiven(laddr) THEN lf.addr ELSE ZeroFullAddress
        rFullAddr == IF AddrGiven(raddr) THEN rf.addr ELSE ZeroFullAddress
        done(call, isListen) ==
            IF ~ok THEN Result(FALSE, FALSE, "stack", << call >>)
            ELSE Result(~isListen, isListen, "", << call >>)
    IN  IF AddrGiven(laddr) /\ lf.err # "" THEN Result(FALSE, FALSE, lf.err, << >>)
        ELSE IF AddrGiven(raddr) /\ rf.err # "" THEN Result(FALSE, FALSE, rf.err, << >>)
        ELSE IF network \notin {"udp", "tcp"} THEN Result(FALSE, FALSE, "unsupported network", << >>)
        ELSE IF family # AFINET THEN Result(FALSE, FALSE, "unsupported address family", << >>)
        ELSE IF network = "udp"
            THEN IF sotype # "SOCK_DGRAM"
                    THEN Result(FALSE, FALSE, "unsupported socket type", << >>)
                    ELSE done(StackCall("DialUDP", lFullAddr, rFullAddr), FALSE)
        ELSE IF sotype # "SOCK_STREAM"
            THEN Result(FALSE, FALSE, "unsupported socket type", << >>)
        ELSE IF raddr.kind # "nil"
            THEN done(StackCall("DialContextTCP", ZeroFullAddress, rFullAddr), FALSE)
            ELSE done(StackCall("ListenTCP", lFullAddr, ZeroFullAddress), TRUE)

\* Interface.Socket; ok: the stack's dial or listen succeeds
Socket(network, family, sotype, laddr, raddr, ok) ==
    LET lf == fullAddr(laddr.str)
        rf == fullAddr(raddr.str)
        lFullAddr == IF AddrGiven(laddr) THEN lf.addr ELSE ZeroFullAddress
        rFullAddr == IF AddrGiven(raddr) THEN rf.addr ELSE ZeroFullAddress
        done(call, isListen) ==
            IF ~ok THEN Result(FALSE, FALSE, "stack", << call >>)
            ELSE Result(~isListen, isListen, "", << call >>)
    IN  IF AddrGiven(laddr) /\ lf.err # "" THEN Result(FALSE, FALSE, lf.err, << >>)
        ELSE IF AddrGiven(raddr) /\ rf.err # "" THEN Result(FALSE, FALSE, rf.err, << >>)
        ELSE IF family # AFINET THEN Result(FALSE, FALSE, "unsupported address family", << >>)
        ELSE IF network = "udp"
            THEN IF sotype # "SOCK_DGRAM"
                    THEN Result(FALSE, FALSE, "unsupported socket type", << >>)
                    ELSE done(StackCall("DialUDP", lFullAddr, rFullAddr), FALSE)
        ELSE IF network = "tcp"
            THEN IF sotype # "SOCK_STREAM"
                    THEN Result(FALSE, FALSE, "unsupported socket type", << >>)
                 ELSE IF raddr.kind # "nil"
                    THEN done(StackCall("DialContextTCP", ZeroFullAddress, rFullAddr), FALSE)
                    ELSE done(StackCall("ListenTCP", lFullAddr, ZeroFullAddress), TRUE)
        ELSE Result(FALSE, FALSE, "unsupported network", << >>)

(***************************************************************************)
(* Inputs of the dial and socket calls.                                    *)
(***************************************************************************)
\* "10.0.0.2:8080", "10.0.0.2" (no port), "10.0.0.2:http" (port not a number),
\* "gw:80" (host not an IPv4 literal), ":8080" (empty host), "10.0.0.2:70000"
\* (port beyond 16 bits), "[::1]:80" (IPv6 host)
AddrStrings ==
    { << "1", "0", ".", "0", ".", "0", ".", "2", ":", "8", "0", "8", "0" >>,
      << "1", "0", ".", "0", ".", "0", ".", "2" >>,
      << "1", "0", ".", "0", ".", "0", ".", "2", ":", "h", "t", "t", "p" >>,
      << "g", "w", ":", "8", "0" >>,
      << ":", "8", "0", "8", "0" >>,
      << "1", "0", ".", "0", ".", "0", ".", "2", ":", "7", "0", "0", "0", "0" >>,
      << "[", ":", ":", "1", "]", ":", "8", "0" >> }

AddrValues == { NilAddr, TypedNilAddr } \cup { Addr(a) : a \in AddrStrings }

Networks == { "tcp", "udp", "icmp" }
Families == { AFINET, AFINET6 }
SockTypes == { "SOCK_STREAM", "SOCK_DGRAM", "SOCK_RAW" }

\* the interface the calls are made on: constructed with BridgeOptions and a device
InitSock ==
    /\ pc = "up"
    /\ nic = [MAC |-> MACa, Link |-> TRUE, Device |-> TRUE]
    /\ dev = [DevInit EXCEPT !.MAC = MACa, !.RxHandler = TRUE, !.up = TRUE]
    /\ link = [LinkInit EXCEPT !.attached = TRUE, !.notify = 1]
    /\ iface = configure(1, BridgeOptions, GoodStack).iface
    /\ ret = [by |-> "InitWithOptions", args |-> BridgeOptions, iface |-> "iface", err |-> "", nicinit |-> "nil"]
    /\ last = [op |-> "none"]
    /\ handlers = << >>

\* one call of the API at a time; the result is what the caller sees
Call(op, args, res) ==
    /\ last' = [op |-> op, args |-> args, res |-> res]
    /\ UNCHANGED << pc, nic, dev, link, iface, ret, handlers >>

DialTCP4Call(address, ok) ==
    /\ pc = "up" /\ ret.iface = "iface" /\ last.op = "none"
    /\ Call("DialTCP4", [address |-> address], DialContextTCP4(address, ok))

DialUDP4Call(lAddr, rAddr, ok) ==
    /\ pc = "up" /\ ret.iface = "iface" /\ last.op = "none"
    /\ Call("DialUDP4", [lAddr |-> lAddr, rAddr |-> rAddr], DialUDP4(lAddr, rAddr, ok))

SocketCall(network, family, sotype, laddr, raddr, ok) ==
    /\ pc = "up" /\ ret.iface = "iface" /\ last.op = "none"
    /\ Call("Socket",
         [network |-> network, family |-> family, sotype |-> sotype, laddr |-> laddr, raddr |-> raddr],
         Socket(network, family, sotype, laddr, raddr, ok))

\* the caller takes the result; the next call may start
Return ==
    /\ pc = "up" /\ last.op \in {"DialTCP4", "DialUDP4", "Socket"}
    /\ last' = [op |-> "none"]
    /\ UNCHANGED << pc, nic, dev, link, iface, ret, handlers >>

NextSock ==
    \/ \E a \in AddrStrings, ok \in BOOLEAN : DialTCP4Call(a, ok)
    \/ \E l \in AddrStrings \cup { << >> }, r \in AddrStrings \cup { << >> }, ok \in BOOLEAN :
            DialUDP4Call(l, r, ok)
    \/ \E network \in Networks, family \in Families, sotype \in SockTypes,
          laddr \in AddrValues, raddr \in AddrValues, ok \in BOOLEAN :
            SocketCall(network, family, sotype, laddr, raddr, ok)
    \/ Return

SpecSock == InitSock /\ [][NextSock]_vars

(***************************************************************************)
(* Claims about the link bridge (specification Spec).                      *)
(***************************************************************************)
\* C1 (as stated): when a transmit-ready notification handler returns with
\* nothing pushed meanwhile, the link endpoint queue is empty, whatever the
\* number of packets that were queued when it started.
C1_DrainsCompletely ==
    (last.op = "WriteNotifyTx" /\ last.seq) => link.q = << >>

\* C2 (as stated): a transmit-ready notification handler that finds the link
\* endpoint queue empty makes no call to the device's transmit entry point.
C2_EmptyDrainNoTransmit ==
    (last.op = "WriteNotifyTx" /\ last.pkt.nil) => Len(dev.tx) = last.tx0

\* C9: Rx of a buffer shorter than 14 bytes injects no packet and leaves the
\* link endpoint queue, the NIC and the device's transmit log as they were;
\* Rx of a buffer of 14 bytes or more injects exactly one packet.
C9_ShortFrameDrop ==
    last.op = "Rx" =>
        /\ Len(last.buf) < 14 =>
              /\ Len(link.inj) = last.inj0
              /\ link.q = last.q0
              /\ Len(dev.tx) = last.tx0
        /\ Len(last.buf) >= 14 =>
              /\ Len(link.inj) = last.inj0 + 1
              /\ link.q = last.q0

\* a short buffer was dropped after a full frame had been injected
C9_Witness ==
    /\ last.op = "Rx"
    /\ Len(last.buf) = 13
    /\ Len(link.inj) = 1
    /\ last.inj0 = 1

\* C10 (as stated): every frame the transmit path hands to the device is the
\* 6-byte destination, the bridge's MAC at offset 6, the protocol number in
\* two big-endian bytes at offset 12, then the packet's slices in order, and
\* is 14 + sum(slice lengths) bytes long, whatever the packet's resolved
\* link address.
C10_FrameLayout ==
    (last.op = "WriteNotifyTx" /\ ~last.pkt.nil) =>
        LET f == dev.tx[Len(dev.tx)] IN
        /\ Len(f) = 14 + SumLen(last.pkt.slices)
        /\ SubSeq(f, 1, 6) = last.pkt.dst
        /\ SubSeq(f, 7, 12) = nic.MAC
        /\ SubSeq(f, 13, 14) = PutUint16(last.pkt.proto)
        /\ SubSeq(f, 15, Len(f)) = Concat(last.pkt.slices)

(***************************************************************************)
(* Claims about the socket dispatcher and the address parser               *)
(* (specification SpecSock).                                               *)
(***************************************************************************)
\* a net.Addr argument that carries an address
CarriesAddress(a) == a.kind = "addr"

\* a well-formed host:port: a dotted-decimal IPv4 host and a numeric port
WellFormedHostPort(a) ==
    LET sp == SplitHostPort(a) IN
    /\ sp.ok
    /\ sp.port # << >>
    /\ \A i \in 1..Len(sp.port) : IsDigit(sp.port[i])
    /\ ~Has(sp.host, ":")
    /\ LET fs == Fields(sp.host, ".") IN Len(fs) = 4 /\ \A i \in 1..4 : IsV4Field(fs[i])

IsParseError(e) == e \in {"parse port", "failed to parse lAddr", "failed to parse rAddr"}

\* the addresses given to Socket pass fullAddr
AddressesParse(args) ==
    /\ AddrGiven(args.laddr) => fullAddr(args.laddr.str).err = ""
    /\ AddrGiven(args.raddr) => fullAddr(args.raddr.str).err = ""

\* C3 (as stated): a tcp/SOCK_STREAM call dials when raddr carries an address
\* and listens on the local address when it carries none, a nil pointer in the
\* interface included; on every successful call exactly one of connection and
\* listener is non-nil: the connection for a dial and for udp/SOCK_DGRAM, the
\* listener for a listen.
C3_ExactlyOnePopulated ==
    (last.op = "Socket" /\ last.args.family = AFINET /\ AddressesParse(last.args)) =>
        /\ (last.args.network = "tcp" /\ last.args.sotype = "SOCK_STREAM") =>
              /\ Len(last.res.calls) = 1
              /\ CarriesAddress(last.args.raddr) =>
                    /\ last.res.calls[1].fn = "DialContextTCP"
                    /\ last.res.err = "" => (last.res.c /\ ~last.res.l)
              /\ ~CarriesAddress(last.args.raddr) =>
                    /\ last.res.calls[1].fn = "ListenTCP"
                    /\ last.res.err = "" => (last.res.l /\ ~last.res.c)
        /\ (last.args.network = "udp" /\ last.args.sotype = "SOCK_DGRAM" /\ last.res.err = "") =>
              (last.res.c /\ ~last.res.l)
        /\ last.res.err = "" => last.res.c # last.res.l

\* what the dispatcher answers to an unsupported request, by the order of its tests
Rejection(args) ==
    IF args.family # AFINET THEN "unsupported address family"
    ELSE IF args.network \notin {"tcp", "udp"} THEN "unsupported network"
    ELSE IF (args.network = "tcp" /\ args.sotype # "SOCK_STREAM")
            \/ (args.network = "udp" /\ args.sotype # "SOCK_DGRAM") THEN "unsupported socket type"
    ELSE ""

\* C4 (as stated): for all arguments, a request with a family other than
\* AF_INET gets the unsupported-family error, else one with a network other
\* than tcp and udp the unsupported-network error, else one with a mismatched
\* socket type the unsupported-socket-type error; connection and listener are
\* absent and no call is made on the stack.
C4_RejectsForAllArguments ==
    (last.op = "Socket" /\ Rejection(last.args) # "") =>
        /\ last.res.err = Rejection(last.args)
        /\ ~last.res.c /\ ~last.res.l
        /\ last.res.calls = << >>

\* C4 (amended): the addresses are parsed first. When the given addresses
\* parse, an unsupported request gets the error of C4 by family, then network,
\* then socket type; when one does not parse (non-numeric port) the result is
\* the parse error whatever the family, network and type. In both cases
\* connection and listener are absent and no call is made on the stack.
C4_RejectsAfterParsing ==
    last.op = "Socket" =>
        /\ (AddressesParse(last.args) /\ Rejection(last.args) # "") =>
              /\ last.res.err = Rejection(last.args)
              /\ ~last.res.c /\ ~last.res.l
              /\ last.res.calls = << >>
        /\ ~AddressesParse(last.args) =>
              /\ last.res.err = "parse port"
              /\ ~last.res.c /\ ~last.res.l
              /\ last.res.calls = << >>

\* an AF_INET6 request for an unknown network, with addresses that parse, was
\* rejected for its family
C4_Witness ==
    /\ last.op = "Socket"
    /\ last.args.family = AFINET6
    /\ last.args.network = "icmp"
    /\ CarriesAddress(last.args.raddr)
    /\ AddressesParse(last.args)
    /\ last.res.err = "unsupported address family"

\* C7 (as stated): for every address string that is not a well-formed
\* host:port with a dotted-decimal IPv4 host and a numeric port, DialTCP4,
\* DialUDP4 and Socket return an address-parse error and make no dial or
\* listen call on the stack.
C7_ParseFailuresSurfaced ==
    LET bad(str) == ~WellFormedHostPort(str)
        refused == IsParseError(last.res.err) /\ last.res.calls = << >>
    IN  /\ (last.op = "DialTCP4" /\ bad(last.args.address)) => refused
        /\ (last.op = "DialUDP4" /\ (bad(last.args.rAddr)
                                     \/ (last.args.lAddr # << >> /\ bad(last.args.lAddr)))) => refused
        /\ (last.op = "Socket" /\ ((CarriesAddress(last.args.laddr) /\ bad(last.args.laddr.str))
                                   \/ (CarriesAddress(last.args.raddr) /\ bad(last.args.raddr.str)))) => refused

(***************************************************************************)
(* Claims about the construction (specification SpecInit).                 *)
(***************************************************************************)
\* the constructor has returned
Returned == pc \in {"up", "failed"} /\ ret.by \in {"Init", "InitWithOptions"}

\* C5 (as stated): whenever Init or InitWithOptions returns a non-nil error,
\* the Interface it returns is nil.
C5_NoPartialInterface ==
    (Returned /\ ret.err # "") => ret.iface = "nil"

\* a valid IPv4 literal: four dotted decimal fields
IsIPv4Literal(s) ==
    /\ ~Has(s, ":")
    /\ LET fs == Fields(s, ".") IN Len(fs) = 4 /\ \A i \in 1..4 : IsV4Field(fs[i])

\* C6 (as stated): an Init call whose ip, netmask or gateway is not a valid
\* IPv4 literal returns an error and installs no address and no route.
C6_InvalidLiteralFatal ==
    (Returned /\ ret.by = "Init"
        /\ (~IsIPv4Literal(ret.args.ip) \/ ~IsIPv4Literal(ret.args.netmask)
            \/ ~IsIPv4Literal(ret.args.gateway))) =>
        /\ ret.err # ""
        /\ iface.addrs = << >>
        /\ iface.rt = << >>

\* NIC.Init has returned
NICInitReturned == pc \in {"up", "failed"} /\ ret.nicinit # "not run"

\* C8 (as stated): NIC.Init fails exactly when the link endpoint is absent or
\* the MAC is not 6 bytes long; on failure the device is untouched and no
\* observer is registered; whenever it succeeds the device's receive callback
\* is bound and the bridge is registered as observer on the link endpoint.
C8_InitWiresOnSuccess ==
    NICInitReturned =>
        /\ (ret.nicinit # "nil") <=> (~nic.Link \/ Len(nic.MAC) # 6)
        /\ ret.nicinit # "nil" => (dev = DevInit /\ link.notify = 0)
        /\ ret.nicinit = "nil" => (dev.RxHandler /\ link.notify = 1)

\* C8 (amended): NIC.Init fails exactly when the link endpoint is absent or
\* the MAC is not 6 bytes long; on failure the device is untouched and no
\* observer is registered. When it succeeds with a device, the device has the
\* MAC, its receive callback is bound, it is brought up and the bridge is
\* registered as observer; when it succeeds with a nil device, nothing is
\* bound and no observer is registered.
C8_InitWiresWithDevice ==
    NICInitReturned =>
        /\ (ret.nicinit # "nil") <=> (~nic.Link \/ Len(nic.MAC) # 6)
        /\ ret.nicinit # "nil" => (dev = DevInit /\ link.notify = 0)
        /\ (ret.nicinit = "nil" /\ nic.Device) =>
              (dev.RxHandler /\ dev.up /\ dev.MAC = nic.MAC /\ link.notify = 1)
        /\ (ret.nicinit = "nil" /\ ~nic.Device) => (dev = DevInit /\ link.notify = 0)

\* NIC.Init failed on a MAC that is not 6 bytes long, with a link endpoint and a device
C8_Witness ==
    /\ NICInitReturned
    /\ ret.nicinit = "invalid MAC address"
    /\ nic.Link /\ nic.Device
    /\ Len(nic.MAC) = 8

(***************************************************************************)
(* The frame codec on its own: NIC.Tx's frame assembly applied to a packet *)
(* of one payload slice, then NIC.Rx applied to the resulting buffer.      *)
(***************************************************************************)
\* longest enumerated payload
MaxPayload == 3
\* enet.MTU, the value of the package's MTU variable
MTU == 1518

\* payload bytes the enumeration draws from
PayloadBytes == {0, 255}

\* payloads: every byte string up to MaxPayload, and one of MTU bytes
Payloads ==
    UNION { [1..n -> PayloadBytes] : n \in 0..MaxPayload }
        \cup { [i \in 1..MTU |-> i % 256] }

\* 16-bit ethertypes: the three the stack uses and the edges of the range
EtherTypes ==
    { 0, 255, 256, IPv4ProtocolNumber, ARPProtocolNumber, IPv6ProtocolNumber, 65535 }

CodecMACs == { MACa, PeerMAC, Broadcast }

InitCodec ==
    /\ pc = "codec"
    /\ nic = NoNIC
    /\ dev = DevInit
    /\ link = LinkInit
    /\ iface = NoIface
    /\ ret = [by |-> "none", args |-> << >>, iface |-> "pending", err |-> "",
              nicinit |-> "not run"]
    /\ last = [op |-> "none"]
    /\ handlers = << >>

\* NIC.Tx's frame for a packet to m1 from a bridge whose MAC is m2
Encode(m1, m2, t, p) ==
    /\ pc = "codec"
    /\ last.op = "none"
    /\ last' = [op |-> "encode", m1 |-> m1, m2 |-> m2, t |-> t, p |-> p,
                frame |-> TxFrame(m2, Pkt(t, m1, << p >>))]
    /\ UNCHANGED << pc, nic, dev, link, iface, ret, handlers >>

\* NIC.Rx on the frame just built
Decode ==
    /\ pc = "codec"
    /\ last.op = "encode"
    /\ last' = [op |-> "decode", m1 |-> last.m1, m2 |-> last.m2, t |-> last.t,
                p |-> last.p, frame |-> last.frame, inj |-> NICRx(last.frame)]
    /\ UNCHANGED << pc, nic, dev, link, iface, ret, handlers >>

NextCodec ==
    \/ \E m1 \in CodecMACs : \E m2 \in CodecMACs \ {m1} :
          \E t \in EtherTypes, p \in Payloads : Encode(m1, m2, t, p)
    \/ Decode

SpecCodec == InitCodec /\ [][NextCodec]_vars

\* C11: decoding the frame encoded from (m1, m2, t, [p]), m1 # m2 two 6-byte
\* MACs, t a 16-bit ethertype and p a payload of 0..MTU bytes, injects one
\* packet whose ethertype is t, read big-endian at header offset 12, and whose
\* payload is exactly p.
C11_CodecRoundTrip ==
    last.op = "decode" =>
        /\ Len(last.frame) = HdrLen + Len(last.p)
        /\ Uint16(SubSeq(last.frame, 13, 14)) = last.t
        /\ Len(last.inj) = 1
        /\ last.inj[1].proto = last.t
        /\ last.inj[1].payload = last.p

\* a full-size payload with an ethertype whose two bytes differ went through
C11_Witness ==
    /\ last.op = "decode"
    /\ Len(last.p) = MTU
    /\ last.t = IPv6ProtocolNumber
    /\ Len(last.inj) = 1

\* the Options the returned constructor call configured the interface with
ConfiguredOptions ==
    IF ret.by = "Init"
        THEN InitOptions(ParseMACAddress(ret.args.mac).addr, ret.args.ip,
                         ret.args.netmask, ret.args.gateway)
        ELSE ret.args

\* a constructor ran configure to its end without error
ConfigureSucceeded ==
    /\ ret.by \in {"Init", "InitWithOptions"}
    /\ \/ pc \in {"configured", "devup", "up"}
       \/ pc = "failed" /\ ret.nicinit # "not run"

\* a constructor returned an error from configure
ConfigureFailed ==
    /\ ret.by \in {"Init", "InitWithOptions"}
    /\ pc = "failed"
    /\ ret.nicinit = "not run"

\* the all-zero destination of a family of n-byte addresses
ZeroSubnet(n) == [address |-> [i \in 1..n |-> 0], mask |-> [i \in 1..n |-> 0]]

\* the routes C12 states for one family: the subnet route of A/prefix with no
\* gateway, then the default route through G unless every byte of G is zero
FamilyRoutes(cfg, n, id) ==
    IF cfg.nil THEN << >>
    ELSE << [Destination |-> Subnet(cfg.Address, cfg.PrefixLen), Gateway |-> << >>, NIC |-> id] >>
         \o (IF \E i \in 1..Len(cfg.Gateway) : cfg.Gateway[i] # 0
                THEN << [Destination |-> ZeroSubnet(n), Gateway |-> cfg.Gateway, NIC |-> id] >>
                ELSE << >>)

\* C12: once every family is configured the stack's route table holds, for
\* each configured family with address A/prefix and gateway G on NIC id N,
\* exactly the subnet route of A/prefix with no gateway plus the all-zero
\* default route through G if and only if G is not unspecified, every entry
\* bound to N; the table is installed as a whole, so a configure that fails
\* installs no route.
C12_RouteInstallation ==
    /\ ConfigureSucceeded =>
          /\ iface.rt = FamilyRoutes(ConfiguredOptions.IPv4, 4, iface.NICID)
                            \o FamilyRoutes(ConfiguredOptions.IPv6, 16, iface.NICID)
          /\ \A i \in 1..Len(iface.rt) : iface.rt[i].NIC = iface.NICID
    /\ ConfigureFailed => iface.rt = << >>

\* IPv4 with the unspecified gateway and IPv6 through a gateway: three routes
C12_Witness ==
    /\ ConfigureSucceeded
    /\ ret.by = "InitWithOptions"
    /\ ~ret.args.IPv4.nil /\ ret.args.IPv4.Gateway = << 0, 0, 0, 0 >>
    /\ ~ret.args.IPv6.nil /\ ret.args.IPv6.Gateway # << >>
    /\ Len(iface.rt) = 3
    /\ iface.rt[3].Gateway = ret.args.IPv6.Gateway

(***************************************************************************)
(* Neighbor resolution.  The package installs no NUD dispatcher            *)
(* (DefaultStackOptions names only protocol factories) and defines no      *)
(* neighbor callback: a neighbor event of the stack runs no code of the    *)
(* package.  The NIC struct holds MAC, Link and Device and nothing else;   *)
(* the destination of a frame is read from the packet (NIC.Tx).            *)
(***************************************************************************)
NeighborKinds == { "added", "changed", "removed" }

\* the gateway of BridgeOptions and another host of the subnet
NeighborAddrs == { BridgeOptions.IPv4.Gateway, << 10, 0, 0, 7 >> }

\* link addresses an entry carries: two resolved ones and the empty one
NeighborLinkAddrs == { PeerMAC, << 2, 0, 0, 0, 0, 9 >>, << >> }

\* the gateway link address the NIC holds: the struct has no such field, which
\* reads as the zero-length address
GatewayLinkAddress(n) ==
    IF "GatewayLinkAddress" \in DOMAIN n THEN n.GatewayLinkAddress ELSE << >>

\* the stack adds, changes or removes a neighbor entry: no handler of the
\* package is registered for it, so nothing of the bridge changes
NeighborEvent(kind, addr, linkAddr) ==
    /\ pc = "up"
    /\ last' = [op |-> "neighbor", kind |-> kind, addr |-> addr, linkAddr |-> linkAddr,
                gw0 |-> GatewayLinkAddress(nic)]
    /\ UNCHANGED << pc, nic, dev, link, iface, ret, handlers >>

\* one interface with a device, the stack writing packets and resolving
\* neighbors, the notification handler transmitting
NextNeigh ==
    \/ InitWithOptions(TRUE, 1, BridgeOptions, GoodStack)
    \/ NICInit
    \/ NICInitAddNotify
    \/ \E pkt \in StackPackets : StackWrite(pkt)
    \/ WriteNotifyRead
    \/ \E i \in 1..MaxHandlers : WriteNotifyTx(i)
    \/ \E kind \in NeighborKinds, addr \in NeighborAddrs, linkAddr \in NeighborLinkAddrs :
          NeighborEvent(kind, addr, linkAddr)

SpecNeigh == Init /\ [][NextNeigh]_vars

\* C13 (as stated): the gateway link-address cache of the bridge is the
\* broadcast address right after initialization and never zero-length; an
\* added or changed event for the gateway with a non-empty link address L sets
\* it to L, a removed event for the gateway resets it to broadcast, an event
\* for any other address leaves it unchanged.
C13_GatewayCache ==
    pc = "up" =>
        /\ Len(GatewayLinkAddress(nic)) # 0
        /\ last.op = "NICInitAddNotify" => GatewayLinkAddress(nic) = Broadcast
        /\ last.op = "neighbor" =>
              /\ (last.addr = iface.rt[2].Gateway /\ last.kind \in {"added", "changed"}
                    /\ last.linkAddr # << >>) => GatewayLinkAddress(nic) = last.linkAddr
              /\ (last.addr = iface.rt[2].Gateway /\ last.kind = "removed") =>
                    GatewayLinkAddress(nic) = Broadcast
              /\ last.addr # iface.rt[2].Gateway => GatewayLinkAddress(nic) = last.gw0

(***************************************************************************)
(* The transmit path under fair scheduling: a constructor that has         *)
(* configured the interface goes on to NIC.Init, and a notification the    *)
(* link endpoint has raised runs its handler to completion.  The stack     *)
(* writes when it wants to and at most MaxWrites packets.                  *)
(***************************************************************************)
NextLive ==
    \/ InitWithOptions(TRUE, 1, BridgeOptions, GoodStack)
    \/ NICInit
    \/ NICInitAddNotify
    \/ \E pkt \in StackPackets : StackWrite(pkt)
    \/ WriteNotifyRead
    \/ \E i \in 1..MaxHandlers : WriteNotifyTx(i)

SpecLive ==
    /\ Init /\ [][NextLive]_vars
    /\ WF_vars(NICInit) /\ WF_vars(NICInitAddNotify)
    /\ WF_vars(WriteNotifyRead) /\ WF_vars(\E i \in 1..MaxHandlers : WriteNotifyTx(i))

\* C14 (as stated): with one notification per queued packet to the observers
\* registered at that moment and every handler run to completion, every
\* packet placed on the link endpoint queue is eventually handed to the
\* device, those queued before NIC.Init registers the observer included:
\* once the stack stops sending the queue empties and stays empty.
C14_EveryPacketTransmitted == <>[](link.q = << >>)

(***************************************************************************)
(* Concurrent notification handlers with a device: the two steps of        *)
(* WriteNotify of several handlers interleave with each other and with Rx. *)
(***************************************************************************)
\* one interface with a device; the stack writes from several goroutines, the
\* handlers and the receive callback interleave freely
NextConc ==
    \/ InitWithOptions(TRUE, 1, BridgeOptions, GoodStack)
    \/ NICInit
    \/ NICInitAddNotify
    \/ \E pkt \in StackPackets : StackWrite(pkt)
    \/ WriteNotifyRead
    \/ \E i \in 1..MaxHandlers : WriteNotifyTx(i)
    \/ \E buf \in RxBufs : Rx(buf)

SpecConc == Init /\ [][NextConc]_vars

\* C15 (as stated): under any interleaving of concurrent notification
\* handlers and Rx callbacks the frames reach Device.Tx in the FIFO order of
\* the link endpoint queue: a handler never transmits while a handler that
\* read an earlier packet still holds a different frame; no packet is
\* transmitted twice and none is skipped.
C15_FIFOTransmitOrder ==
    /\ last.op = "WriteNotifyTx" =>
          \A j \in 1..Len(last.earlier) : last.earlier[j] = last.buf
    /\ pc = "up" => Len(dev.tx) + Len(handlers) + Len(link.q) = link.nw

=============================================================================
